---- MODULE Spec2Model ----
(***************************************************************************)
(* Model of grant_manager.py: the Streamlit script that loads a table of   *)
(* grant records, normalizes it, scores it against the sidebar criteria    *)
(* and lists deadline reminders.                                           *)
(*                                                                         *)
(* Text is a sequence of one-character strings, so that str.strip,         *)
(* str.lower, str.replace, the substring test and the parsers are computed *)
(* character by character.  A cell value is a record [k, n, s]:            *)
(*   k = "str"  text s             k = "num"  number n                     *)
(*   k = "nan"  NaN                k = "ts"   Timestamp at tick n          *)
(*   k = "nat"  NaT                                                        *)
(* A DataFrame is [tag, columns, rows]; a row is [index, cells] with cells *)
(* aligned with columns.  The index label is the RangeIndex label that     *)
(* read_csv / pd.DataFrame assign, which pandas keeps through the sort.    *)
(***************************************************************************)
EXTENDS Integers, Sequences, FiniteSets, TLC

\* ------------------------------------------------------------------ bounds
MaxRows == 2          \* rows of an uploaded table
TicksPerDay == 2      \* resolution of the wall clock within one day
TodayDay == 10        \* day of the month on which the script runs
MinFundingChoice == 3      \* the non-zero value of the "Min Funding Quantum" input
MaxFundingChoice == 9      \* the non-zero value of the "Max Funding Quantum" input

\* --------------------------------------------------------------- constants
LOOKAHEAD == 7        \* upper end of `0 <= days_left <= 7`
FUNDING_CAP == 20000  \* grant_info["funding_cap"]
NoneArg == -1         \* encodes the Python default `None` of a funding bound
                      \* (the number inputs have min_value=0, so -1 is free)

\* ------------------------------------------------------------------- text
grant_name == <<"g", "r", "a", "n", "t", "_", "n", "a", "m", "e">>
issue_area_col == <<"i", "s", "s", "u", "e", "_", "a", "r", "e", "a">>
funding_quantum == <<"f", "u", "n", "d", "i", "n", "g", "_", "q", "u", "a", "n", "t", "u", "m">>
application_due_date == <<"a", "p", "p", "l", "i", "c", "a", "t", "i", "o", "n", "_", "d", "u", "e", "_", "d", "a", "t", "e">>
relevance_score == <<"r", "e", "l", "e", "v", "a", "n", "c", "e", "_", "s", "c", "o", "r", "e">>
description == <<"d", "e", "s", "c", "r", "i", "p", "t", "i", "o", "n">>
who_can_apply == <<"w", "h", "o", "_", "c", "a", "n", "_", "a", "p", "p", "l", "y">>
application_period == <<"a", "p", "p", "l", "i", "c", "a", "t", "i", "o", "n", "_", "p", "e", "r", "i", "o", "d">>
funding_cap == <<"f", "u", "n", "d", "i", "n", "g", "_", "c", "a", "p">>

Whitespace == {" ", "\t", "\n"}
Digits == <<"0", "1", "2", "3", "4", "5", "6", "7", "8", "9">>

\* one character of str.lower()
lower_char(c) ==
    CASE c = "A" -> "a" [] c = "B" -> "b" [] c = "C" -> "c" [] c = "D" -> "d"
      [] c = "E" -> "e" [] c = "F" -> "f" [] c = "G" -> "g" [] c = "H" -> "h"
      [] c = "I" -> "i" [] c = "J" -> "j" [] c = "K" -> "k" [] c = "L" -> "l"
      [] c = "M" -> "m" [] c = "N" -> "n" [] c = "O" -> "o" [] c = "P" -> "p"
      [] c = "Q" -> "q" [] c = "R" -> "r" [] c = "S" -> "s" [] c = "T" -> "t"
      [] c = "U" -> "u" [] c = "V" -> "v" [] c = "W" -> "w" [] c = "X" -> "x"
      [] c = "Y" -> "y" [] c = "Z" -> "z" [] OTHER -> c

lower(s) == [i \in 1..Len(s) |-> lower_char(s[i])]

RECURSIVE lstrip(_)
lstrip(s) == IF s # <<>> /\ Head(s) \in Whitespace THEN lstrip(Tail(s)) ELSE s

RECURSIVE rstrip(_)
rstrip(s) ==
    IF s # <<>> /\ s[Len(s)] \in Whitespace
    THEN rstrip(SubSeq(s, 1, Len(s) - 1)) ELSE s

strip(s) == rstrip(lstrip(s))

\* s.replace(' ', '_')
replace_space(s) == [i \in 1..Len(s) |-> IF s[i] = " " THEN "_" ELSE s[i]]

\* `needle in hay`
contains(hay, needle) ==
    \E i \in 0..(Len(hay) - Len(needle)) :
        SubSeq(hay, i + 1, i + Len(needle)) = needle

DigitValue(c) == (CHOOSE i \in 1..10 : Digits[i] = c) - 1
IsDigit(c) == \E i \in 1..10 : Digits[i] = c
IsDigits(s) == s # <<>> /\ \A i \in 1..Len(s) : IsDigit(s[i])

RECURSIVE ParseInt(_)
ParseInt(s) ==
    IF s = <<>> THEN 0
    ELSE 10 * ParseInt(SubSeq(s, 1, Len(s) - 1)) + DigitValue(s[Len(s)])

RECURSIVE FormatInt(_)
FormatInt(n) ==
    IF n < 10 THEN <<Digits[n + 1]>>
    ELSE FormatInt(n \div 10) \o <<Digits[(n % 10) + 1]>>

\* ----------------------------------------------------------------- values
Str(s) == [k |-> "str", n |-> 0, s |-> s]
Num(n) == [k |-> "num", n |-> n, s |-> <<>>]
NaN == [k |-> "nan", n |-> 0, s |-> <<>>]
Timestamp(n) == [k |-> "ts", n |-> n, s |-> <<>>]
NaT == [k |-> "nat", n |-> 0, s |-> <<>>]

\* Python str(x) of a cell, as used by the issue-area lambda and the f-string
PyStr(v) ==
    CASE v.k = "str" -> v.s
      [] v.k = "num" -> FormatInt(v.n)
      [] v.k = "nan" -> <<"n", "a", "n">>
      [] v.k = "nat" -> <<"N", "a", "T">>

\* pd.notnull(x); the None that row.get returns for an absent column is
\* handled by the caller
notnull(v) == v.k \notin {"nan", "nat"}

\* The dates of the model are the days of January 2024, written
\* "2024-01-DD"; a Timestamp counts ticks from the start of that month.
DatePrefix == <<"2", "0", "2", "4", "-", "0", "1", "-">>
DateText(d) ==
    DatePrefix \o (IF d < 10 THEN <<"0">> \o FormatInt(d) ELSE FormatInt(d))
IsDateText(s) ==
    /\ Len(s) = 10
    /\ SubSeq(s, 1, 8) = DatePrefix
    /\ IsDigits(SubSeq(s, 9, 10))
    /\ ParseInt(SubSeq(s, 9, 10)) \in 1..31

\* pd.to_datetime(x, errors='coerce') on one cell
to_datetime(v) ==
    CASE v.k = "str" ->
            IF IsDateText(v.s)
            THEN Timestamp(ParseInt(SubSeq(v.s, 9, 10)) * TicksPerDay)
            ELSE NaT
      [] v.k = "nan" -> NaT
      [] v.k = "nat" -> NaT
      [] v.k = "ts" -> v

\* a to_numeric that parses text only and coerces everything else to NaN
to_numeric_text_only(v) ==
    IF v.k = "str" /\ IsDigits(v.s) THEN Num(ParseInt(v.s)) ELSE NaN

\* pd.to_numeric(x, errors='coerce') on one cell
to_numeric(v) ==
    CASE v.k = "str" -> IF IsDigits(v.s) THEN Num(ParseInt(v.s)) ELSE NaN
      [] v.k = "num" -> v
      [] v.k = "nan" -> NaN

\* -------------------------------------------------------------- DataFrame
NoneDF == [tag |-> "None", columns |-> <<>>, rows |-> <<>>]
DataFrame(columns, rows) == [tag |-> "DataFrame", columns |-> columns, rows |-> rows]

\* `name in df.columns`
HasCol(t, name) == \E j \in 1..Len(t.columns) : t.columns[j] = name
\* number of columns carrying the label (rename does not merge columns)
LabelCount(t, name) == Cardinality({j \in 1..Len(t.columns) : t.columns[j] = name})
ColPos(t, name) == CHOOSE j \in 1..Len(t.columns) : t.columns[j] = name
\* row[name] for a label the table has
Cell(t, r, name) == r.cells[ColPos(t, name)]
\* df.empty: no rows or no columns
empty(t) == Len(t.rows) = 0 \/ Len(t.columns) = 0

\* ------------------------------------------------- normalize_grant_data
\* the lambda of df.rename(columns=...)
rename_column(x) == replace_space(lower(strip(x)))

\* Selecting a duplicated label yields a DataFrame, on which pd.to_datetime
\* raises ValueError and pd.to_numeric raises TypeError.
normalize_error(t) ==
    LET renamed == [t EXCEPT !.columns = [j \in 1..Len(t.columns) |-> rename_column(t.columns[j])]]
    IN  IF LabelCount(renamed, application_due_date) > 1 THEN "ValueError"
        ELSE IF LabelCount(renamed, funding_quantum) > 1 THEN "TypeError"
        ELSE ""

normalize_grant_data(t) ==
    LET columns == [j \in 1..Len(t.columns) |-> rename_column(t.columns[j])]
        coerce(j, v) ==
            IF columns[j] = application_due_date THEN to_datetime(v)
            ELSE IF columns[j] = funding_quantum THEN to_numeric(v)
            ELSE v
    IN  DataFrame(columns,
            [i \in 1..Len(t.rows) |->
                [t.rows[i] EXCEPT !.cells = [j \in 1..Len(columns) |-> coerce(j, t.rows[i].cells[j])]]])

\* --------------------------------------------------- evaluate_relevance
\* the test `is not None` in place of the truth test
truthy_not_none(bound) == bound # NoneArg

\* `if min_funding:` / `if max_funding:` on None or a number
truthy(bound) == bound # NoneArg /\ bound # 0

\* df.get(name, default).apply(f) at row r: the cell of the column if the
\* table has it, the element of the default Series otherwise
get(t, r, name, default) == IF HasCol(t, name) THEN Cell(t, r, name) ELSE default

\* lambda x: 1 if issue_area.lower() in str(x).lower() else 0
issue_point(x, issue_area) ==
    IF contains(lower(PyStr(x)), lower(issue_area)) THEN 1 ELSE 0

\* lambda x: 1 if x >= min_funding else 0   (NaN >= m is False)
min_point(x, min_funding) == IF x.k = "num" /\ x.n >= min_funding THEN 1 ELSE 0

\* lambda x: 1 if x <= max_funding else 0   (NaN <= m is False)
max_point(x, max_funding) == IF x.k = "num" /\ x.n <= max_funding THEN 1 ELSE 0

\* the three `+=` with the issue-area one outside its `if issue_area:`
score_unguarded(t, r, issue_area, min_funding, max_funding) ==
      issue_point(get(t, r, issue_area_col, Str(<<>>)), issue_area)
    + (IF truthy(min_funding)
       THEN min_point(get(t, r, funding_quantum, Num(0)), min_funding) ELSE 0)
    + (IF truthy(max_funding)
       THEN max_point(get(t, r, funding_quantum, Num(0)), max_funding) ELSE 0)

\* relevance_score of row r after the three `+=`
score(t, r, issue_area, min_funding, max_funding) ==
      (IF issue_area # <<>>
       THEN issue_point(get(t, r, issue_area_col, Str(<<>>)), issue_area) ELSE 0)
    + (IF truthy(min_funding)
       THEN min_point(get(t, r, funding_quantum, Num(0)), min_funding) ELSE 0)
    + (IF truthy(max_funding)
       THEN max_point(get(t, r, funding_quantum, Num(0)), max_funding) ELSE 0)

\* df[name] = values: overwrite the column, or append it
set_column(t, name, values) ==
    IF HasCol(t, name)
    THEN [t EXCEPT !.rows = [i \in 1..Len(t.rows) |->
             [t.rows[i] EXCEPT !.cells[ColPos(t, name)] = values[i]]]]
    ELSE [t EXCEPT !.columns = Append(t.columns, name),
                   !.rows = [i \in 1..Len(t.rows) |->
             [t.rows[i] EXCEPT !.cells = Append(t.rows[i].cells, values[i])]]]

\* df.sort_values(by=..., ascending=False) with the default kind='quicksort',
\* which is not a stable sort: the order of rows with equal keys depends on
\* the numpy build.  `build` fixes it: "stable" keeps ties in their order,
\* "unstable" reverses them.
sort_values(build, t, by) ==
    LET n == Len(t.rows)
        key(i) == Cell(t, t.rows[i], by).n
        before(j, i) ==
            \/ key(j) > key(i)
            \/ key(j) = key(i) /\ (IF build = "stable" THEN j < i ELSE j > i)
        rank(i) == 1 + Cardinality({j \in 1..n : before(j, i)})
    IN  [t EXCEPT !.rows = [p \in 1..n |-> t.rows[CHOOSE i \in 1..n : rank(i) = p]]]

evaluate_relevance(build, t, issue_area, min_funding, max_funding) ==
    LET scores == [i \in 1..Len(t.rows) |->
                      Num(score(t, t.rows[i], issue_area, min_funding, max_funding))]
    IN  sort_values(build, set_column(t, relevance_score, scores), relevance_score)

\* ------------------------------------------------------ generate_alerts
\* (row['application_due_date'] - today).days: timedelta.days is the floor
days_left(due, today) == (due.n - today) \div TicksPerDay

\* the two `if`s that guard alerts.append
qualifies(t, r, today) ==
    /\ HasCol(t, application_due_date)
    /\ notnull(Cell(t, r, application_due_date))
    /\ days_left(Cell(t, r, application_due_date), today) \in 0..LOOKAHEAD

\* row['grant_name'] raises KeyError when the table has no such column
alerts_error(t, today) ==
    IF ~HasCol(t, grant_name) /\ \E i \in 1..Len(t.rows) : qualifies(t, t.rows[i], today)
    THEN "KeyError" ELSE ""

\* the f-string, kept as its two substituted parts
alert(t, r, today) ==
    [grant_name |-> PyStr(Cell(t, r, grant_name)),
     days_left |-> days_left(Cell(t, r, application_due_date), today)]

RECURSIVE alerts_from(_, _, _)
alerts_from(t, i, today) ==
    IF i > Len(t.rows) THEN <<>>
    ELSE (IF qualifies(t, t.rows[i], today) THEN <<alert(t, t.rows[i], today)>> ELSE <<>>)
         \o alerts_from(t, i + 1, today)

generate_alerts(t, today) == alerts_from(t, 1, today)

\* ------------------------------------------------------------ the inputs
\* Headers an uploaded CSV may carry, and the cells read_csv may deliver in
\* row i (0-based index label) of each.  Two of the headers are renamed to
\* the same label.
RawColumns ==
    << <<"g", "r", "a", "n", "t", "_", "n", "a", "m", "e">>,
       <<" ", "I", "s", "s", "u", "e", " ", "A", "r", "e", "a">>,
       <<"F", "u", "n", "d", "i", "n", "g", " ", "Q", "u", "a", "n", "t", "u", "m">>,
       <<"f", "u", "n", "d", "i", "n", "g", "_", "q", "u", "a", "n", "t", "u", "m">>,
       <<"A", "p", "p", "l", "i", "c", "a", "t", "i", "o", "n", " ", "D", "u", "e", " ", "D", "a", "t", "e", "\t">> >>

RawCells(c, i) ==
    CASE c = 1 -> {Str(<<"G">> \o FormatInt(i))}
      [] c = 2 -> IF i % 2 = 0 THEN {Str(<<"S", "p", "o", "r", "t">>)} ELSE {NaN}
      [] c = 3 -> {Str(<<"7">>), Str(<<"T", "B", "C">>)}
      [] c = 4 -> {Num(1)}
      [] c = 5 -> {Str(DateText(TodayDay)), Str(DateText(TodayDay + LOOKAHEAD)),
                   Str(DateText(TodayDay + LOOKAHEAD + 1)), Str(<<"T", "B", "C">>)}

\* the chosen headers, in file order
RECURSIVE Pick(_, _)
Pick(S, c) ==
    IF c > Len(RawColumns) THEN <<>>
    ELSE (IF c \in S THEN <<c>> ELSE <<>>) \o Pick(S, c + 1)

RECURSIVE CellChoices(_, _, _)
CellChoices(picked, j, i) ==
    IF j > Len(picked) THEN {<<>>}
    ELSE {<<v>> \o rest : v \in RawCells(picked[j], i),
                          rest \in CellChoices(picked, j + 1, i)}

RECURSIVE RowChoices(_, _, _)
RowChoices(picked, i, n) ==
    IF i >= n THEN {<<>>}
    ELSE {<<[index |-> i, cells |-> cells]>> \o rest :
              cells \in CellChoices(picked, 1, i),
              rest \in RowChoices(picked, i + 1, n)}

\* what pd.read_csv can return: at least one column, rows 0..n-1
CsvFrames ==
    UNION {
        {DataFrame([j \in 1..Len(Pick(S, 1)) |-> RawColumns[Pick(S, 1)[j]]], rows) :
             rows \in RowChoices(Pick(S, 1), 0, n)} :
        S \in (SUBSET (1..Len(RawColumns))) \ {{}}, n \in 0..MaxRows}

NoFile == [present |-> FALSE, readable |-> FALSE, frame |-> NoneDF]
Files ==
    {NoFile, [present |-> TRUE, readable |-> FALSE, frame |-> NoneDF]}
    \cup {[present |-> TRUE, readable |-> TRUE, frame |-> f] : f \in CsvFrames}

Texts == {<<>>, <<"h", "i">>}
\* what the two input widgets can hold together; text is pasted only next
\* to no file or to a file that cannot be read
WidgetStates ==
    {<<f, x>> \in Files \X Texts : x = <<>> \/ ~f.readable}
IssueAreas == {<<>>, <<"s", "p">>}
MinFundings == {0, MinFundingChoice}
MaxFundings == {0, MaxFundingChoice}
Builds == {"stable", "unstable"}
Clock == {TodayDay * TicksPerDay + tod : tod \in 0..(TicksPerDay - 1)}

\* pd.read_csv(uploaded_file, on_bad_lines='skip') inside the try: the frame,
\* or None when it raises
read_csv(file) == IF file.readable THEN file.frame ELSE NoneDF

\* grant_info with the amount under the key "funding_quantum"
grant_info_quantum(text) ==
    DataFrame(<<grant_name, description, who_can_apply, application_period, funding_quantum>>,
        <<[index |-> 0,
           cells |-> <<Str(<<"A", "c", "t", "i", "v", "e", " ", "C", "i", "t", "i", "z", "e", "n", " ", "G", "r", "a", "n", "t">>),
                       Str(text),
                       Str(<<"A", "n", "y", "o", "n", "e">>),
                       Str(<<"A", "l", "l", " ", "y", "e", "a", "r", " ", "r", "o", "u", "n", "d">>),
                       Num(FUNDING_CAP)>>]>>)

\* the one-row DataFrame built from grant_info
grant_info(text) ==
    DataFrame(<<grant_name, description, who_can_apply, application_period, funding_cap>>,
        <<[index |-> 0,
           cells |-> <<Str(<<"A", "c", "t", "i", "v", "e", " ", "C", "i", "t", "i", "z", "e", "n", " ", "G", "r", "a", "n", "t">>),
                       Str(text),
                       Str(<<"A", "n", "y", "o", "n", "e">>),
                       Str(<<"A", "l", "l", " ", "y", "e", "a", "r", " ", "r", "o", "u", "n", "d">>),
                       Num(FUNDING_CAP)>>]>>)

\* ------------------------------------------------------------ the script
VARIABLES pc, build, uploaded_file, pasted_data, df, issue_area, min_funding,
          max_funding, today, alerts, ui, ran, raised

vars == <<pc, build, uploaded_file, pasted_data, df, issue_area, min_funding,
          max_funding, today, alerts, ui, ran, raised>>

Fresh ==
    /\ pc = "widgets"
    /\ uploaded_file = NoFile
    /\ pasted_data = <<>>
    /\ df = NoneDF
    /\ issue_area = <<>>
    /\ min_funding = NoneArg
    /\ max_funding = NoneArg
    /\ today = 0
    /\ alerts = <<>>
    /\ ui = <<>>
    /\ ran = {}
    /\ raised = ""

Init == Fresh /\ build \in Builds

\* st.file_uploader / st.text_area: what the user has put into the widgets
Widgets ==
    /\ pc = "widgets"
    /\ \E w \in WidgetStates :
          /\ uploaded_file' = w[1]
          /\ pasted_data' = w[2]
    /\ pc' = "load"
    /\ UNCHANGED <<build, df, issue_area, min_funding, max_funding, today, alerts, ui, ran, raised>>

\* `if uploaded_file:` try read_csv, except st.error
HandleCsv ==
    /\ pc = "load"
    /\ uploaded_file.present
    /\ df' = read_csv(uploaded_file)
    /\ ui' = IF uploaded_file.readable THEN ui ELSE Append(ui, "error")
    /\ pc' = "process"
    /\ UNCHANGED <<build, uploaded_file, pasted_data, issue_area, min_funding, max_funding, today, alerts, ran, raised>>

\* `elif pasted_data:` the one-row stub
HandlePasted ==
    /\ pc = "load"
    /\ ~uploaded_file.present
    /\ pasted_data # <<>>
    /\ df' = grant_info(pasted_data)
    /\ pc' = "process"
    /\ UNCHANGED <<build, uploaded_file, pasted_data, issue_area, min_funding, max_funding, today, alerts, ui, ran, raised>>

\* neither branch: df stays None
HandleNothing ==
    /\ pc = "load"
    /\ ~uploaded_file.present
    /\ pasted_data = <<>>
    /\ pc' = "process"
    /\ UNCHANGED <<build, uploaded_file, pasted_data, df, issue_area, min_funding, max_funding, today, alerts, ui, ran, raised>>

\* the null test inverted: `df is None or not df.empty`
has_table_inverted(t) == t.tag = "None" \/ ~empty(t)

\* `df is not None and not df.empty`
has_table(t) == t.tag # "None" /\ ~empty(t)

\* the sidebar inputs, then df = normalize_grant_data(df)
Normalize ==
    /\ pc = "process"
    /\ has_table(df)
    /\ issue_area' \in IssueAreas
    /\ min_funding' \in MinFundings
    /\ max_funding' \in MaxFundings
    /\ ran' = ran \cup {"normalize_grant_data"}
    /\ IF normalize_error(df) # ""
       THEN /\ raised' = normalize_error(df)
            /\ pc' = "crashed"
            /\ df' = df
       ELSE /\ df' = normalize_grant_data(df)
            /\ pc' = "evaluate"
            /\ raised' = raised
    /\ UNCHANGED <<build, uploaded_file, pasted_data, today, alerts, ui>>

\* df = evaluate_relevance(df, issue_area, min_funding, max_funding)
Evaluate ==
    /\ pc = "evaluate"
    /\ df' = evaluate_relevance(build, df, issue_area, min_funding, max_funding)
    /\ ran' = ran \cup {"evaluate_relevance"}
    /\ pc' = "alerts"
    /\ UNCHANGED <<build, uploaded_file, pasted_data, issue_area, min_funding, max_funding, today, alerts, ui, raised>>

\* alerts = generate_alerts(df), then one st.warning per alert or st.success
Alerts ==
    /\ pc = "alerts"
    /\ today' \in Clock
    /\ ran' = ran \cup {"generate_alerts"}
    /\ IF alerts_error(df, today') # ""
       THEN /\ raised' = alerts_error(df, today')
            /\ pc' = "crashed"
            /\ UNCHANGED <<alerts, ui>>
       ELSE /\ alerts' = generate_alerts(df, today')
            /\ ui' = IF alerts' # <<>>
                     THEN ui \o [i \in 1..Len(alerts') |-> "warning"]
                     ELSE Append(ui, "success")
            /\ pc' = "done"
            /\ raised' = raised
    /\ UNCHANGED <<build, uploaded_file, pasted_data, df, issue_area, min_funding, max_funding>>

\* the else branch: st.info
Idle ==
    /\ pc = "process"
    /\ ~has_table(df)
    /\ ui' = Append(ui, "info")
    /\ pc' = "done"
    /\ UNCHANGED <<build, uploaded_file, pasted_data, df, issue_area, min_funding, max_funding, today, alerts, ran, raised>>

\* Streamlit runs the script again from the top on the next interaction
Rerun ==
    /\ pc \in {"done", "crashed"}
    /\ pc' = "widgets"
    /\ uploaded_file' = NoFile
    /\ pasted_data' = <<>>
    /\ df' = NoneDF
    /\ issue_area' = <<>>
    /\ min_funding' = NoneArg
    /\ max_funding' = NoneArg
    /\ today' = 0
    /\ alerts' = <<>>
    /\ ui' = <<>>
    /\ ran' = {}
    /\ raised' = ""
    /\ UNCHANGED build

Next ==
    \/ Widgets
    \/ HandleCsv
    \/ HandlePasted
    \/ HandleNothing
    \/ Normalize
    \/ Evaluate
    \/ Alerts
    \/ Idle
    \/ Rerun

Spec == Init /\ [][Next]_vars

\* ------------------------------------------------------------ properties
\* df holds the table that evaluate_relevance returned
Scored == "evaluate_relevance" \in ran
\* generate_alerts has been called (it returned, or it raised)
AlertsCalled == "generate_alerts" \in ran
Rows == {df.rows[i] : i \in 1..Len(df.rows)}
ScoreOf(r) == Cell(df, r, relevance_score).n
HasDue(r) ==
    HasCol(df, application_due_date) /\ Cell(df, r, application_due_date).k = "ts"
DueTick(r) == Cell(df, r, application_due_date).n
\* the returned sequence holds the reminder of row r
Alerted(r, days) ==
    /\ HasCol(df, grant_name)
    /\ \E k \in 1..Len(alerts) :
          alerts[k] = [grant_name |-> PyStr(Cell(df, r, grant_name)), days_left |-> days]
PastedRun == ~uploaded_file.present /\ pasted_data # <<>>
ReadFailed == uploaded_file.present /\ ~uploaded_file.readable
Count(log, x) == Cardinality({k \in 1..Len(log) : log[k] = x})

\* C1: generate_alerts emits the reminder of a record if and only if the
\* record has a valid due date whose whole-day distance from the evaluation
\* instant lies in 0..7; a record without a valid due date gets none.
C1_AlertIffInWindow ==
    AlertsCalled =>
        \A r \in Rows :
            LET d == (DueTick(r) - today) \div TicksPerDay
            IN  IF HasDue(r)
                THEN (0 <= d /\ d <= 7) <=> Alerted(r, d)
                ELSE \A k \in 0..7 : ~Alerted(r, k)

\* C2: at every time of day, a record due on today's calendar date gets a
\* reminder with days_left = 0, a record due 7 days later gets a reminder,
\* and a record due 8 days later gets none.
C2_DeadlineBoundary ==
    (AlertsCalled /\ HasCol(df, grant_name)) =>
        \A r \in Rows :
            LET day == today \div TicksPerDay
            IN  /\ (HasDue(r) /\ DueTick(r) = day * TicksPerDay) => Alerted(r, 0)
                /\ (HasDue(r) /\ DueTick(r) = (day + 7) * TicksPerDay) =>
                       \E k \in 0..7 : Alerted(r, k)
                /\ (HasDue(r) /\ DueTick(r) = (day + 8) * TicksPerDay) =>
                       \A k \in 0..8 : ~Alerted(r, k)

\* C3: a table whose records lack grant_name does not make generate_alerts
\* abort: the call returns and the run goes on to show its result.
C3_MissingNameDoesNotAbort ==
    (AlertsCalled /\ ~HasCol(df, grant_name)) => (pc = "done" /\ raised = "")

\* C4: a record without a funding value (no funding_quantum field, or the
\* no-value marker) is scored as if its funding were 0: no point from a
\* positive min_funding, and the max_funding point whenever max_funding is
\* non-zero.
C4_NoValueFundingIsZero ==
    Scored =>
        \A r \in Rows :
            (~HasCol(df, funding_quantum) \/ Cell(df, r, funding_quantum).k = "nan") =>
                LET m == IF max_funding # 0 THEN 1 ELSE 0
                IN  ScoreOf(r) \in (IF issue_area = <<>> THEN {m} ELSE {m, m + 1})

C6_ScoreWithinCriteria ==
    Scored =>
        /\ HasCol(df, relevance_score)
        /\ \A r \in Rows :
              /\ Cell(df, r, relevance_score).k = "num"
              /\ 0 <= ScoreOf(r)
              /\ ScoreOf(r) <= (IF issue_area # <<>> THEN 1 ELSE 0)
                              + (IF min_funding \notin {NoneArg, 0} THEN 1 ELSE 0)
                              + (IF max_funding \notin {NoneArg, 0} THEN 1 ELSE 0)

C6_Witness ==
    /\ Scored
    /\ \E r \in Rows : ScoreOf(r) = 3
    /\ \E r \in Rows : ScoreOf(r) = 0

\* C7: normalizing the table normalize_grant_data returned gives that table
\* again: same field names, same coerced values, same other fields.
C7_NormalizeIdempotent ==
    pc = "evaluate" => (normalize_error(df) = "" /\ normalize_grant_data(df) = df)

C7_Witness ==
    /\ pc = "evaluate"
    /\ df.columns # uploaded_file.frame.columns
    /\ \E r \in Rows :
          /\ HasCol(df, funding_quantum) /\ Cell(df, r, funding_quantum).k = "num"
          /\ HasCol(df, application_due_date) /\ Cell(df, r, application_due_date).k = "nat"
    /\ \E r \in Rows :
          /\ HasCol(df, funding_quantum) /\ Cell(df, r, funding_quantum).k = "nan"
          /\ HasCol(df, application_due_date) /\ Cell(df, r, application_due_date).k = "ts"

\* C8: when the uploaded file cannot be read the run shows exactly one
\* error and calls none of the three stages; in every run a stage is called
\* only on a table that exists.
C8_NoTableNoPipeline ==
    /\ (ReadFailed /\ pc \in {"process", "done", "crashed"}) =>
           (ran = {} /\ Count(ui, "error") = 1 /\ pc # "crashed")
    /\ ran # {} => df.tag = "DataFrame"
    /\ Count(ui, "error") <= 1

C8_Witness ==
    /\ ReadFailed
    /\ pasted_data # <<>>
    /\ pc = "done"

\* C9: a funding bound of 0 gives the table that the call without that
\* bound gives: same scores, same order.
C9_ZeroBoundIsOmitted ==
    [][(pc = "evaluate" /\ pc' = "alerts") =>
          /\ min_funding = 0 =>
                df' = evaluate_relevance(build, df, issue_area, NoneArg, max_funding)
          /\ max_funding = 0 =>
                df' = evaluate_relevance(build, df, issue_area, min_funding, NoneArg)
          /\ (min_funding = 0 /\ max_funding = 0) =>
                df' = evaluate_relevance(build, df, issue_area, NoneArg, NoneArg)]_vars

C9_Witness ==
    /\ pc = "alerts"
    /\ min_funding = 0
    /\ max_funding # 0
    /\ HasCol(df, funding_quantum)
    /\ \E r \in Rows : Cell(df, r, funding_quantum).k = "num" /\ ScoreOf(r) = 1
    /\ \E r \in Rows : Cell(df, r, funding_quantum).k = "nan" /\ ScoreOf(r) = 0

\* C10: on the pasted-text path the table is one record without
\* application_due_date, issue_area and funding_quantum; the run ends with
\* no alert and the "no alerts" message, and the record scores 1 if
\* max_funding is non-zero and 0 otherwise.
C10_PastedStub ==
    (PastedRun /\ pc \notin {"widgets", "load"}) =>
        /\ pc # "crashed"
        /\ Len(df.rows) = 1
        /\ ~HasCol(df, application_due_date)
        /\ ~HasCol(df, issue_area_col)
        /\ ~HasCol(df, funding_quantum)
        /\ Scored => ScoreOf(df.rows[1]) = (IF max_funding # 0 THEN 1 ELSE 0)
        /\ pc = "done" => (alerts = <<>> /\ ui = <<"success">>)

C10_Witness ==
    /\ PastedRun
    /\ pc = "done"
    /\ issue_area # <<>>
    /\ min_funding > 0
    /\ max_funding # 0

====
